---- MODULE Spec2Model ----
(***************************************************************************)
(* A model of packages/cli/src/util/output/create-output.ts: the singleton *)
(* console output channel of the CLI.  The closure variables of            *)
(* _createOutput (debugEnabled, spinnerMessage, spinner) are the state;    *)
(* the effects on the collaborators (process.stderr, the spinner driver    *)
(* `wait`, the tasks handed to `time`) are recorded, in order, in          *)
(* `events`.  Text is a sequence of tokens, concatenated with \o.          *)
(***************************************************************************)
EXTENDS Integers, Sequences, FiniteSets, TLC

VARIABLES
  instance,        \* module variable `instance`: 0 is null, n the n-th object built
  debugEnabled,    \* closure: debugEnabled
  spinnerMessage,  \* closure: spinnerMessage
  spinner,         \* closure: spinner; 0 is null, h the handle wait() returned
  events,          \* the effects so far, in order
  handles,         \* number of handles the spinner driver has returned
  timers,          \* the promises returned by time(), by the call that made them
  calls,           \* number of public calls made so far
  last,            \* the most recent public call and the state it started from
  returned,        \* the values createOutput has returned
  firstOpts,       \* the options of the first createOutput call
  budget           \* number of public calls explored

vars == <<instance, debugEnabled, spinnerMessage, spinner, events, handles,
          timers, calls, last, returned, firstOpts, budget>>

\* ------------------------------------------------------------------ bounds
MaxCalls == 3
MaxSpinnerCalls == 6

\* ------------------------------------------------------------------ inputs
NULL == "<absent>"
Texts == {"t"}
Messages == {"", "m", "n"}
Slugs == {NULL, "", "my-slug"}
Links == {NULL, "", "https://example.com"}
Opts == {"none", "{}", "{debug:true}", "{debug:false}"}
Labels == [fn : BOOLEAN, text : {"X"}]
\* a task: a promise already started, or a function that starts one when it is
\* invoked; it resolves to a value, rejects with a failure, or (a function)
\* throws the failure when invoked
Tasks == [lazy : BOOLEAN, outcome : {"resolve"}, value : {"5"}]
           \cup [lazy : BOOLEAN, outcome : {"reject"}, value : {"E"}]
           \cup [lazy : {TRUE}, outcome : {"throw"}, value : {"E"}]
Durations == {250, 1500}
DefaultDelay == 300
DefaultAction == "Learn More"

\* a JavaScript string used as a condition
Truthy(s) == s # NULL /\ s # ""

\* ------------------------------------------------------- the collaborators
\* chalk: the text between an opening and a closing style code
Chalk(style, toks) == <<"<" \o style \o ">">> \o toks \o <<"</" \o style \o ">">>
\* boxen: the text inside a border
Boxen(toks) == <<"<box>">> \o toks \o <<"</box>">>
\* renderLink: the url as a terminal link
RenderLink(url) == <<"<link>", url, "</link>">>

Ev(kind, id, text, call) == [kind |-> kind, id |-> id, text |-> text, call |-> call]

\* process.stderr.write(str)
Write(st, str) == [st EXCEPT !.events = Append(@, Ev("write", 0, str, st.call))]

\* wait(message, delay): a new handle
Wait(st, message, delay) ==
  LET h == st.handles + 1
  IN [st EXCEPT !.handles = h,
                !.spinner = h,
                !.events = Append(@, Ev("wait", h, <<message, ToString(delay)>>, st.call))]

\* ------------------------------------------------- the methods of the object
\* Each takes and returns the record st: the closure variables, the events,
\* the handle count and the number of the public call being served.
RECURSIVE stopSpinner(_)

\* print that writes first and stops the spinner afterwards
printWriteFirst(st, str) == stopSpinner(Write(st, str))

\* print that leaves the spinner alone
printNoStop(st, str) == Write(st, str)

print(st, str) == Write(stopSpinner(st), str)

log(st, str) == print(st, Chalk("grey", <<">">>) \o <<" ">> \o str \o <<"\n">>)

dim(st, str) == print(st, Chalk("grey", <<"> ">> \o str) \o <<"\n">>)

\* details that prefers the link to the slug
DetailsLinkFirst(slug, link) ==
  IF Truthy(link) THEN link ELSE "https://err.sh/vercel/" \o slug

\* const details = slug ? `https://err.sh/vercel/${slug}` : link
Details(slug, link) ==
  IF Truthy(slug) THEN "https://err.sh/vercel/" \o slug ELSE link

warn(st, str, slug, link, action) ==
  LET details == Details(slug, link)
      body == Chalk("bold.yellow", <<"WARN! ">>) \o str \o
              (IF Truthy(details)
                 THEN <<"\n", action, ": ">> \o RenderLink(details)
                 ELSE <<>>)
  IN print(print(st, Boxen(body)), <<"\n">>)

note(st, str) == log(st, Chalk("yellow.bold", <<"NOTE:">>) \o <<" ">> \o str)

error(st, str, slug, link, action) ==
  LET s1 == print(st, Chalk("red", <<"Error!">>) \o <<" ">> \o str \o <<"\n">>)
      details == Details(slug, link)
  IN IF Truthy(details)
       THEN print(s1, Chalk("bold", <<action>>) \o <<": ">> \o RenderLink(details) \o <<"\n">>)
       ELSE s1

\* err.link and err.action may be undefined; error's default fills the action
prettyError(st, message, link) == error(st, message, NULL, link, DefaultAction)

ready(st, str) == print(st, Chalk("cyan", <<"> Ready!">>) \o <<" ">> \o str \o <<"\n">>)

success(st, str) == print(st, Chalk("cyan", <<"> Success!">>) \o <<" ">> \o str \o <<"\n">>)

\* debug without the test of debugEnabled
debugAlways(st, str) ==
  log(st, Chalk("bold", <<"[debug]">>) \o <<" ">> \o
          Chalk("gray", <<"[", "<iso-8601>", "]">>) \o <<" ">> \o str)

debug(st, str) ==
  IF st.debugEnabled
    THEN log(st, Chalk("bold", <<"[debug]">>) \o <<" ">> \o
                 Chalk("gray", <<"[", "<iso-8601>", "]">>) \o <<" ">> \o str)
    ELSE st

\* setSpinner that starts a spinner whether or not one is active
setSpinnerAlwaysWait(st, message, delay) ==
  LET s1 == [st EXCEPT !.spinnerMessage = message]
  IN IF s1.debugEnabled
       THEN debug(s1, <<"Spinner invoked (", message, ") with a ", ToString(delay), "ms delay">>)
       ELSE Wait(s1, message, delay)

setSpinner(st, message, delay) ==
  LET s1 == [st EXCEPT !.spinnerMessage = message]
  IN IF s1.debugEnabled
       THEN debug(s1, <<"Spinner invoked (", message, ") with a ", ToString(delay), "ms delay">>)
       ELSE IF s1.spinner # 0
              THEN [s1 EXCEPT !.events = Append(@, Ev("text", s1.spinner, <<message>>, s1.call))]
              ELSE Wait(s1, message, delay)

\* stopSpinner that stops the handle and keeps the reference to it
stopSpinnerKeepHandle(st) ==
  LET s1 == IF st.debugEnabled /\ Truthy(st.spinnerMessage)
              THEN debug([st EXCEPT !.spinnerMessage = ""],
                         <<"Spinner stopped (", st.spinnerMessage, ")">>)
              ELSE st
  IN IF s1.spinner # 0
       THEN [s1 EXCEPT !.events = Append(@, Ev("stop", s1.spinner, <<>>, s1.call)),
                       !.spinnerMessage = ""]
       ELSE s1

stopSpinner(st) ==
  LET s1 == IF st.debugEnabled /\ Truthy(st.spinnerMessage)
              THEN debug([st EXCEPT !.spinnerMessage = ""],
                         <<"Spinner stopped (", st.spinnerMessage, ")">>)
              ELSE st
  IN IF s1.spinner # 0
       THEN [s1 EXCEPT !.events = Append(@, Ev("stop", s1.spinner, <<>>, s1.call)),
                       !.spinner = 0,
                       !.spinnerMessage = ""]
       ELSE s1

\* elapsed time as time() prints it: `${duration}ms` under 1000, else
\* (duration / 1000).toFixed(2) followed by "s"
ToFixed2(duration) ==
  LET hundredths == (duration + 5) \div 10
      frac == hundredths % 100
  IN ToString(hundredths \div 100) \o "." \o
     (IF frac < 10 THEN "0" ELSE "") \o ToString(frac)

DurationPretty(duration) ==
  IF duration < 1000 THEN ToString(duration) \o "ms" ELSE ToFixed2(duration) \o "s"

\* typeof label === 'function' ? label(r) : label, for the label functions
\* used here: one that builds its text from the result when it gets one
ApplyLabel(label, r) ==
  IF label.fn
    THEN (IF r = NULL THEN label.text \o " begins" ELSE label.text \o " gave " \o r)
    ELSE label.text

\* ------------------------------------------------------------- the state
Cur(call) ==
  [debugEnabled |-> debugEnabled, spinnerMessage |-> spinnerMessage,
   spinner |-> spinner, events |-> events, handles |-> handles, call |-> call]

\* the record of a public call: its name, its arguments, and where it started
Call(op, a1, a2) ==
  [op |-> op, a1 |-> a1, a2 |-> a2, sp |-> spinner, msg |-> spinnerMessage,
   from |-> Len(events), id |-> calls + 1]

\* a public call op(a1, a2) on the object, leaving it in state st
Served(st, op, a1, a2) ==
  /\ spinnerMessage' = st.spinnerMessage
  /\ spinner' = st.spinner
  /\ events' = st.events
  /\ handles' = st.handles
  /\ calls' = calls + 1
  /\ last' = Call(op, a1, a2)
  /\ UNCHANGED <<instance, debugEnabled, returned, firstOpts, budget>>

\* a caller can use the object once createOutput has returned it
Obtained == instance # 0 /\ calls < budget

NoCall == [op |-> "", a1 |-> NULL, a2 |-> NULL, sp |-> 0, msg |-> "", from |-> 0, id |-> 0]

Start(n) ==
  /\ instance = 0
  /\ debugEnabled = FALSE
  /\ spinnerMessage = ""
  /\ spinner = 0
  /\ events = <<>>
  /\ handles = 0
  /\ timers = <<>>
  /\ calls = 0
  /\ last = NoCall
  /\ returned = {}
  /\ firstOpts = NULL
  /\ budget = n

Init == Start(MaxCalls)

InitSpinner == Start(MaxSpinnerCalls)

\* ------------------------------------------------------------ the actions
\* { debug: debugEnabled = false }: OutputOptions = {}
DebugOption(opts) == opts = "{debug:true}"

\* createOutput that builds an object on every call
NoInstanceAlways == TRUE

\* if (!instance)
NoInstance == instance = 0

DoCreateOutput(opts) ==
  /\ calls < budget
  /\ IF NoInstance
       THEN /\ instance' = instance + 1
            /\ debugEnabled' = DebugOption(opts)
            /\ spinnerMessage' = ""
            /\ spinner' = 0
       ELSE UNCHANGED <<instance, debugEnabled, spinnerMessage, spinner>>
  /\ returned' = returned \cup {instance'}
  /\ firstOpts' = IF calls = 0 THEN opts ELSE firstOpts
  /\ calls' = calls + 1
  /\ last' = Call("createOutput", opts, NULL)
  /\ UNCHANGED <<events, handles, timers, budget>>

DoIsDebugEnabled ==
  /\ Obtained
  /\ Served(Cur(calls + 1), "isDebugEnabled", IF debugEnabled THEN "true" ELSE "false", NULL)
  /\ UNCHANGED timers

DoPrint(str) ==
  /\ Obtained
  /\ Served(print(Cur(calls + 1), <<str>>), "print", str, NULL)
  /\ UNCHANGED timers

DoLog(str) ==
  /\ Obtained
  /\ Served(log(Cur(calls + 1), <<str>>), "log", str, NULL)
  /\ UNCHANGED timers

DoDim(str) ==
  /\ Obtained
  /\ Served(dim(Cur(calls + 1), <<str>>), "dim", str, NULL)
  /\ UNCHANGED timers

DoNote(str) ==
  /\ Obtained
  /\ Served(note(Cur(calls + 1), <<str>>), "note", str, NULL)
  /\ UNCHANGED timers

DoWarn(str, slug, link) ==
  /\ Obtained
  /\ Served(warn(Cur(calls + 1), <<str>>, slug, link, DefaultAction), "warn", slug, link)
  /\ UNCHANGED timers

DoError(str, slug, link) ==
  /\ Obtained
  /\ Served(error(Cur(calls + 1), <<str>>, slug, link, DefaultAction), "error", slug, link)
  /\ UNCHANGED timers

DoPrettyError(str, link) ==
  /\ Obtained
  /\ Served(prettyError(Cur(calls + 1), <<str>>, link), "prettyError", NULL, link)
  /\ UNCHANGED timers

DoReady(str) ==
  /\ Obtained
  /\ Served(ready(Cur(calls + 1), <<str>>), "ready", str, NULL)
  /\ UNCHANGED timers

DoSuccess(str) ==
  /\ Obtained
  /\ Served(success(Cur(calls + 1), <<str>>), "success", str, NULL)
  /\ UNCHANGED timers

DoDebug(str) ==
  /\ Obtained
  /\ Served(debug(Cur(calls + 1), <<str>>), "debug", str, NULL)
  /\ UNCHANGED timers

DoSetSpinner(message) ==
  /\ Obtained
  /\ Served(setSpinner(Cur(calls + 1), message, DefaultDelay), "setSpinner", message, NULL)
  /\ UNCHANGED timers

DoStopSpinner ==
  /\ Obtained
  /\ Served(stopSpinner(Cur(calls + 1)), "stopSpinner", NULL, NULL)
  /\ UNCHANGED timers

\* the promise time() returned to call id
Timer(label, task, state, value) ==
  [label |-> label, task |-> task, state |-> state, value |-> value]

\* time(label, fn), up to its first suspension
DoTime(label, task) ==
  /\ Obtained
  /\ LET id == calls + 1
         s0 == Cur(id)
         \* const promise = typeof fn === 'function' ? fn() : fn
         s1 == IF task.lazy
                 THEN [s0 EXCEPT !.events = Append(@, Ev("invoke", id, <<>>, id))]
                 ELSE s0
     IN IF task.lazy /\ task.outcome = "throw"
          THEN /\ Served([s1 EXCEPT !.events =
                            Append(@, Ev("settle", id, <<"rejected", task.value>>, id))],
                         "time", NULL, NULL)
               /\ timers' = timers @@ (id :> Timer(label, task, "rejected", task.value))
          ELSE /\ Served(IF s1.debugEnabled
                           THEN debug(s1, <<ApplyLabel(label, NULL)>>)
                           ELSE s1,
                         "time", NULL, NULL)
               /\ timers' = timers @@ (id :> Timer(label, task, "awaiting", NULL))

\* the rest of time() for call id, once its task has settled: `duration` is
\* the time that passed between the two readings of Date.now()
TimeSettle(id, duration) ==
  /\ id \in DOMAIN timers
  /\ timers[id].state = "awaiting"
  /\ LET t == timers[id]
         s0 == Cur(id)
         ok == t.task.outcome = "resolve"
         \* const r = await promise
         s1 == IF s0.debugEnabled
                 THEN [s0 EXCEPT !.events =
                         Append(@, Ev("resume", id, <<t.task.outcome, t.task.value>>, id))]
                 ELSE s0
         s2 == IF s0.debugEnabled /\ ok
                 THEN debug(s1, <<ApplyLabel(t.label, t.task.value), " ">> \o
                                Chalk("gray", <<"[" \o DurationPretty(duration) \o "]">>))
                 ELSE s1
         state == IF ok THEN "fulfilled" ELSE "rejected"
         s3 == [s2 EXCEPT !.events = Append(@, Ev("settle", id, <<state, t.task.value>>, id))]
     IN /\ spinnerMessage' = s3.spinnerMessage
        /\ spinner' = s3.spinner
        /\ events' = s3.events
        /\ handles' = s3.handles
        /\ timers' = [timers EXCEPT ![id] = Timer(t.label, t.task, state, t.task.value)]
        /\ UNCHANGED <<instance, debugEnabled, calls, last, returned, firstOpts, budget>>

Next ==
  \/ \E opts \in Opts : DoCreateOutput(opts)
  \/ DoIsDebugEnabled
  \/ \E str \in Texts : DoPrint(str)
  \/ \E str \in Texts : DoLog(str)
  \/ \E str \in Texts : DoDim(str)
  \/ \E str \in Texts : DoNote(str)
  \/ \E str \in Texts, slug \in Slugs, link \in Links : DoWarn(str, slug, link)
  \/ \E str \in Texts, slug \in Slugs, link \in Links : DoError(str, slug, link)
  \/ \E str \in Texts, link \in Links : DoPrettyError(str, link)
  \/ \E str \in Texts : DoReady(str)
  \/ \E str \in Texts : DoSuccess(str)
  \/ \E str \in Texts : DoDebug(str)
  \/ \E message \in Messages : DoSetSpinner(message)
  \/ DoStopSpinner
  \/ \E label \in Labels, task \in Tasks : DoTime(label, task)
  \/ \E id \in DOMAIN timers, duration \in Durations : TimeSettle(id, duration)

Spec == Init /\ [][Next]_vars

\* the spinner and the calls that stop it, over longer runs
NextSpinner ==
  \/ \E opts \in Opts : DoCreateOutput(opts)
  \/ \E str \in Texts : DoPrint(str)
  \/ \E str \in Texts, link \in {NULL, "https://example.com"} : DoPrettyError(str, link)
  \/ \E str \in Texts : DoDebug(str)
  \/ \E message \in Messages : DoSetSpinner(message)
  \/ DoStopSpinner

SpecSpinner == InitSpinner /\ [][NextSpinner]_vars

\* ------------------------------------------------------------- the claims
\* the events of public call c, in order
Of(c) == SelectSeq(events, LAMBDA e : e.call = c)

\* what call c wrote to the error stream, in order
Writes(c) == SelectSeq(events, LAMBDA e : e.call = c /\ e.kind = "write")

HasToken(text, tok) == \E i \in 1..Len(text) : text[i] = tok

\* a line written by debug()
IsDebugLine(e) == e.kind = "write" /\ HasToken(e.text, "[debug]")

\* the debug lines of call c
Traces(c) == SelectSeq(events, LAMBDA e : e.call = c /\ IsDebugLine(e))

PrintFamily ==
  {"print", "log", "dim", "note", "warn", "error", "prettyError", "ready", "success"}

\* the handles started and not stopped among the first n events
ActiveAt(n) ==
  {h \in 1..handles :
     /\ \E i \in 1..n : events[i].kind = "wait" /\ events[i].id = h
     /\ ~ \E i \in 1..n : events[i].kind = "stop" /\ events[i].id = h}

Active == ActiveAt(Len(events))

\* the urls that call c rendered as links
LinkTargets(c) ==
  UNION {{events[i].text[j + 1] :
            j \in {k \in 1..(Len(events[i].text) - 1) : events[i].text[k] = "<link>"}} :
         i \in {n \in 1..Len(events) : events[n].call = c /\ events[n].kind = "write"}}

\* C1: a print-family call made while a handle is active stops that handle
\* before it writes anything, writes, and leaves no handle active; and no
\* write to the error stream ever happens while a handle is active.
StopBeforePrint ==
  /\ (last.op \in PrintFamily /\ last.sp # 0) =>
       /\ Len(Of(last.id)) >= 2
       /\ Of(last.id)[1] = Ev("stop", last.sp, <<>>, last.id)
       /\ \A i \in 2..Len(Of(last.id)) : Of(last.id)[i].kind = "write"
       /\ spinner = 0
  /\ \A i \in 1..Len(events) : events[i].kind = "write" => ActiveAt(i) = {}

StopBeforePrintSeen ==
  /\ last.op = "error"
  /\ last.sp # 0
  /\ Len(Writes(last.id)) = 2

\* C2: at most one handle is active; without debug mode exactly one is active
\* after setSpinner, and setSpinner on an active handle only sets its text, so
\* that two starts always have a stop of the first between them; in debug
\* mode no handle is ever started.
OneSpinner ==
  /\ Cardinality(Active) <= 1
  /\ (last.op = "setSpinner" /\ ~debugEnabled) => (spinner # 0 /\ Active = {spinner})
  /\ (last.op = "setSpinner" /\ ~debugEnabled /\ last.sp # 0) =>
       /\ spinner = last.sp
       /\ Of(last.id) = <<Ev("text", last.sp, <<last.a1>>, last.id)>>
  /\ \A i, j \in 1..Len(events) :
       (i < j /\ events[i].kind = "wait" /\ events[j].kind = "wait") =>
         \E k \in (i + 1)..(j - 1) : events[k].kind = "stop" /\ events[k].id = events[i].id
  /\ debugEnabled => (handles = 0 /\ spinner = 0)

OneSpinnerSeen ==
  /\ last.op = "setSpinner"
  /\ ~debugEnabled
  /\ last.sp # 0
  /\ last.a1 # last.msg
  /\ handles = 2

\* C3: stopSpinner called when no handle is active writes nothing and leaves
\* the handle and the recorded message as they were, in debug mode or not;
\* and stopSpinner always leaves no handle active, so a second stopSpinner
\* adds nothing to the first.
StopSpinnerNoOp ==
  /\ (last.op = "stopSpinner" /\ last.sp = 0) =>
       /\ Of(last.id) = <<>>
       /\ spinner = 0
       /\ spinnerMessage = last.msg
  /\ last.op = "stopSpinner" => spinner = 0

StopSpinnerNoOpSeen ==
  /\ last.op = "stopSpinner"
  /\ last.sp = 0
  /\ debugEnabled
  /\ \E i \in 1..Len(events) : HasToken(events[i].text, "Spinner invoked (")

\* C4: a task that fails makes time fail with the same value; in debug mode
\* the start trace of that call is written and no end trace is.
TimePropagatesFailure ==
  \A id \in DOMAIN timers :
    timers[id].task.outcome # "resolve" =>
      /\ timers[id].state # "fulfilled"
      /\ timers[id].state = "rejected" => timers[id].value = timers[id].task.value
      /\ debugEnabled =>
           /\ Len(Traces(id)) = 1
           /\ HasToken(Traces(id)[1].text, ApplyLabel(timers[id].label, NULL))

\* C5: in debug mode setSpinner(m), m not empty, writes the one line
\* "Spinner invoked (m) ..." and leaves m recorded; the call that stops it
\* next writes "Spinner stopped (m)" and clears the message.
DebugSpinnerTraces ==
  /\ (debugEnabled /\ last.op = "setSpinner" /\ Truthy(last.a1)) =>
       /\ Len(Writes(last.id)) = 1
       /\ HasToken(Writes(last.id)[1].text, "Spinner invoked (")
       /\ spinnerMessage = last.a1
  /\ (debugEnabled /\ last.op \in PrintFamily \cup {"stopSpinner"} /\ Truthy(last.msg)) =>
       /\ Len(Writes(last.id)) >= 1
       /\ HasToken(Writes(last.id)[1].text, "Spinner stopped (")
       /\ HasToken(Writes(last.id)[1].text, last.msg)
       /\ spinnerMessage = ""

\* C6: in debug mode time writes the start trace before it invokes a lazy
\* task, writes the end trace of a successful task after the task completed
\* and after the start trace, and returns the task's result.
TimeOrdering ==
  \A id \in DOMAIN timers :
    /\ debugEnabled =>
         \A i \in 1..Len(events) :
           (events[i].kind = "invoke" /\ events[i].id = id) =>
             \E j \in 1..(i - 1) : events[j].call = id /\ IsDebugLine(events[j])
    /\ (debugEnabled /\ timers[id].state = "fulfilled") =>
         /\ Len(Traces(id)) = 2
         /\ \E i, j, k \in 1..Len(events) :
              /\ i < j /\ j < k
              /\ events[i] = Traces(id)[1]
              /\ events[j].kind = "resume" /\ events[j].id = id
              /\ events[k] = Traces(id)[2]
    /\ timers[id].state = "fulfilled" =>
         (timers[id].task.outcome = "resolve" /\ timers[id].value = timers[id].task.value)

\* C7: without debug mode debug(text) writes nothing and leaves the spinner
\* and the recorded message alone, and nothing ever writes a "[debug]" line;
\* in debug mode every debug(text) writes a "[debug]" line with the text.
DebugOnlyInDebugMode ==
  /\ ~debugEnabled => \A i \in 1..Len(events) : ~IsDebugLine(events[i])
  /\ (last.op = "debug" /\ ~debugEnabled) =>
       /\ Of(last.id) = <<>>
       /\ spinner = last.sp
       /\ spinnerMessage = last.msg
  /\ (last.op = "debug" /\ debugEnabled) =>
       /\ Len(Writes(last.id)) >= 1
       /\ IsDebugLine(Writes(last.id)[Len(Writes(last.id))])
       /\ HasToken(Writes(last.id)[Len(Writes(last.id))].text, last.a1)

DebugOnlyInDebugModeSeen ==
  /\ last.op = "debug"
  /\ instance # 0
  /\ ~debugEnabled
  /\ last.sp # 0
  /\ spinner = last.sp

\* C8: every createOutput call returns the object the first call built, a
\* later call leaves its spinner state alone, and isDebugEnabled() answers
\* with the debug option of the first call, false when it had none.
Singleton ==
  /\ returned \subseteq {1}
  /\ instance <= 1
  /\ instance # 0 => (debugEnabled <=> firstOpts = "{debug:true}")
  /\ last.op = "isDebugEnabled" =>
       (last.a1 = "true" <=> firstOpts = "{debug:true}")
  /\ (last.op = "createOutput" /\ last.id > 1) =>
       /\ spinner = last.sp
       /\ spinnerMessage = last.msg
       /\ Of(last.id) = <<>>

SingletonSeen ==
  /\ last.op = "createOutput"
  /\ last.id > 1
  /\ last.a1 = "{debug:true}"
  /\ firstOpts # "{debug:true}"
  /\ last.sp # 0

\* the lines warn or error wrote beside the action line
PlainLines(c) == Len(Writes(c)) = (IF last.op = "warn" THEN 2 ELSE 1)

\* C9 as stated: a slug that is given, empty or not, decides the target; else
\* a link that is given, empty or not; else there is no action line.
SlugPrecedence ==
  (last.op \in {"warn", "error"}) =>
    /\ last.a1 # NULL => LinkTargets(last.id) = {"https://err.sh/vercel/" \o last.a1}
    /\ (last.a1 = NULL /\ last.a2 # NULL) => LinkTargets(last.id) = {last.a2}
    /\ (last.a1 = NULL /\ last.a2 = NULL) =>
         (LinkTargets(last.id) = {} /\ PlainLines(last.id))

\* C9 amended: a slug that is not empty decides the target of the action line;
\* else a link that is not empty; when each is absent or empty no action line
\* is written: warn writes the box and a newline, error the "Error!" line.
SlugPrecedenceNonEmpty ==
  (last.op \in {"warn", "error"}) =>
    /\ Truthy(last.a1) => LinkTargets(last.id) = {"https://err.sh/vercel/" \o last.a1}
    /\ (~Truthy(last.a1) /\ Truthy(last.a2)) => LinkTargets(last.id) = {last.a2}
    /\ (~Truthy(last.a1) /\ ~Truthy(last.a2)) =>
         (LinkTargets(last.id) = {} /\ PlainLines(last.id))
    /\ (Truthy(last.a1) \/ Truthy(last.a2)) =>
         Len(Writes(last.id)) = 2

SlugPrecedenceNonEmptySeen ==
  /\ last.op \in {"warn", "error"}
  /\ last.a1 = ""
  /\ Truthy(last.a2)
  /\ LinkTargets(last.id) = {last.a2}

\* C10: a handle is stopped at most once and never before it was started, a
\* handle that was started and not stopped is the one the object holds, and
\* when the object holds none the recorded message is empty.
SpinnerLifecycle ==
  /\ \A i, j \in 1..Len(events) :
       (events[i].kind = "stop" /\ events[j].kind = "stop" /\ events[i].id = events[j].id)
         => i = j
  /\ \A j \in 1..Len(events) :
       events[j].kind = "stop" =>
         \E i \in 1..(j - 1) : events[i].kind = "wait" /\ events[i].id = events[j].id
  /\ Active = {spinner} \ {0}
  /\ spinner = 0 => spinnerMessage = ""

SpinnerLifecycleSeen ==
  /\ handles = 2
  /\ spinner = 0
  /\ last.op = "print"

====
